---- MODULE Spec2Model ----
(***************************************************************************)
(* ToastNotifications plugin (src/index.tsx, current revision, lines       *)
(* 1-472): the MESSAGE_CREATE / RELATIONSHIP_ADD flux handlers, the        *)
(* settings and the two module-level id lists derived from them, and the   *)
(* pure string functions that format a notification.                       *)
(*                                                                         *)
(* JavaScript strings are TLA+ strings; TLC evaluates Len, \o and SubSeq   *)
(* on them, so every string function below works character by character   *)
(* as the source does.                                                     *)
(***************************************************************************)
EXTENDS Integers, Sequences, FiniteSets, TLC

VARIABLES
    settings,      \* settings.store                               (line 57)
    ignoredUsers,  \* let ignoredUsers: string[]                   (line 28)
    notifyFor,     \* let notifyFor: string[]                      (line 29)
    host,          \* the host application's stores, read by the handlers
    started,       \* start() has run
    changes,       \* number of setting / host-store changes made so far
    event,         \* the flux event handled last
    shown,         \* showNotification calls made by the handler of `event`
    threw,         \* the handler of `event` ended with an exception
    handler,       \* the promise the handler of `event` returned
    toast,         \* the promise of the showNotification call of `event`
    click,         \* the click on the toast of `event` and the navigation it made
    call,          \* the pure function applied last, with its arguments
    result         \* what that function returned

vars ==
    <<settings, ignoredUsers, notifyFor, host, started, changes, event, shown, threw,
      handler, toast, click, call, result>>

(***************************************************************************)
(* Bounds of the model.                                                    *)
(***************************************************************************)
\* setting changes and host-store changes explored after start()
MaxChanges == 2
\* longest body handed to limitMessageLength
MaxBodyLen == 170
\* number of pieces (text runs, mention tokens, near-tokens) a body handed
\* to parseMentions is built from
MaxPieces == 3

(***************************************************************************)
(* JavaScript string primitives.                                           *)
(***************************************************************************)
Min(a, b) == IF a < b THEN a ELSE b

\* s.charAt(i), i counted from 0; "" past the end
charAt(s, i) == IF i >= 0 /\ i < Len(s) THEN SubSeq(s, i + 1, i + 1) ELSE ""

\* s.substring(a, b) for 0 <= a <= b: positions a .. b-1, cut at the end of s
substring(s, a, b) == SubSeq(s, a + 1, Min(b, Len(s)))

\* s.slice(a, b) for 0 <= a, 0 <= b
slice(s, a, b) == SubSeq(s, a + 1, Min(b, Len(s)))

\* s.slice(a)
sliceFrom(s, a) == SubSeq(s, a + 1, Len(s))

\* s.includes(t)
includes(s, t) ==
    \E i \in 0..(Len(s) - Len(t)) : SubSeq(s, i + 1, i + Len(t)) = t

\* list.includes(x)
listIncludes(list, x) == \E i \in 1..Len(list) : list[i] = x

Digits == {"0", "1", "2", "3", "4", "5", "6", "7", "8", "9"}

Letters ==
    {"a", "b", "c", "d", "e", "f", "g", "h", "i", "j", "k", "l", "m",
     "n", "o", "p", "q", "r", "s", "t", "u", "v", "w", "x", "y", "z",
     "A", "B", "C", "D", "E", "F", "G", "H", "I", "J", "K", "L", "M",
     "N", "O", "P", "Q", "R", "S", "T", "U", "V", "W", "X", "Y", "Z"}

\* the regular-expression class \w
WordChars == Letters \cup Digits \cup {"_"}

\* the regular-expression class \s, as far as the model's strings use it
SpaceChars == {" ", "\t", "\n"}

\* length of the longest run of characters of class cls starting at
\* position i (counted from 0)
RunLen(s, i, cls) ==
    IF i >= Len(s) THEN 0
    ELSE CHOOSE n \in 0..(Len(s) - i) :
            /\ charAt(s, i + n) \notin cls
            /\ \A k \in 0..(n - 1) : charAt(s, i + k) \in cls

\* the least member of a non-empty set of numbers
Least(S) == CHOOSE p \in S : \A q \in S : p <= q

(***************************************************************************)
(* stringToList (lines 165-167):                                           *)
(*   str ? str.replace(/\s/g, "").split(",") : []                          *)
(***************************************************************************)
\* str.replace(/\s/g, "")
RECURSIVE removeWhitespace(_)
removeWhitespace(s) ==
    LET n == CHOOSE k \in 0..Len(s) :
                 /\ k < Len(s) => charAt(s, k) \in SpaceChars
                 /\ \A j \in 0..(k - 1) : charAt(s, j) \notin SpaceChars
    IN  IF n = Len(s) THEN s
        ELSE substring(s, 0, n) \o removeWhitespace(sliceFrom(s, n + 1))

\* s.split(sep) for a one-character separator: never empty; "" splits to [""]
RECURSIVE split(_, _)
split(s, sep) ==
    LET n == CHOOSE k \in 0..Len(s) :
                 /\ k < Len(s) => charAt(s, k) = sep
                 /\ \A j \in 0..(k - 1) : charAt(s, j) # sep
    IN  IF n = Len(s) THEN <<s>>
        ELSE <<substring(s, 0, n)>> \o split(sliceFrom(s, n + 1), sep)

stringToList(str) ==
    IF str # "" THEN split(removeWhitespace(str), ",") ELSE <<>>

(***************************************************************************)
(* limitMessageLength (lines 169-173).                                     *)
(***************************************************************************)
\* limit and kept prefix when the message has attachments (line 170)
AttachmentLimit == 30

AttachmentKeep == 27

\* limit and kept prefix otherwise (line 171)
BodyLimit == 165

BodyKeep == 162

\* lines 169-173 with >= for > in line 170
limitMessageLengthInclusive(body, hasAttachments) ==
    IF hasAttachments /\ Len(body) >= AttachmentLimit
    THEN substring(body, 0, AttachmentKeep) \o "..."
    ELSE IF Len(body) > BodyLimit
         THEN substring(body, 0, BodyKeep) \o "..."
         ELSE body

limitMessageLength(body, hasAttachments) ==
    IF hasAttachments /\ Len(body) > AttachmentLimit
    THEN substring(body, 0, AttachmentKeep) \o "..."
    ELSE IF Len(body) > BodyLimit
         THEN substring(body, 0, BodyKeep) \o "..."
         ELSE body

(***************************************************************************)
(* The host's data, as the handlers read it.  Ids are 17-digit snowflakes, *)
(* the shortest the mention pattern accepts.                               *)
(***************************************************************************)
MeId == "11111111111111111"

BobId == "22222222222222222"

EveId == "33333333333333333"

DmId == "44444444444444444"

GroupId == "55555555555555555"

TextId == "66666666666666666"

GuildId == "77777777777777777"

RoleId == "88888888888888888"

\* an id no store resolves
LostId == "99999999999999999"

UserIds == {MeId, BobId, EveId}

\* a User record (discord-types): id, username, avatar hash, global name
User(id) ==
    CASE id = MeId  -> [id |-> MeId, username |-> "me", avatar |-> "a1", globalName |-> ""]
      [] id = BobId -> [id |-> BobId, username |-> "bob", avatar |-> "b2", globalName |-> ""]
      [] OTHER      -> [id |-> id, username |-> "eve", avatar |-> "c3", globalName |-> "Eve"]

\* a Channel record: guild_id is "" (falsy) outside guilds
Channel(id) ==
    CASE id = DmId    -> [id |-> DmId, guild_id |-> "", name |-> "", kind |-> "DM",
                          rawRecipients |-> <<User(BobId)>>]
      [] id = GroupId -> [id |-> GroupId, guild_id |-> "", name |-> "", kind |-> "GROUP_DM",
                          rawRecipients |-> <<User(BobId), User(EveId)>>]
      [] OTHER        -> [id |-> id, guild_id |-> GuildId, name |-> "general", kind |-> "GUILD_TEXT",
                          rawRecipients |-> <<>>]

ChannelIds == {DmId, GroupId, TextId}

isDM(channel) == channel.kind = "DM"

isGroupDM(channel) == channel.kind = "GROUP_DM"

\* UserStore.getUser(id): <<user>>, or <<>> for undefined
getUser(id) == IF id \in host.knownUsers THEN <<User(id)>> ELSE <<>>

\* UserStore.getCurrentUser()
getCurrentUser == User(MeId)

\* ChannelStore.getChannel(id): <<channel>>, or <<>> for undefined
getChannel(id) == IF id \in ChannelIds THEN <<Channel(id)>> ELSE <<>>

\* ChannelStore.hasChannel(id)
hasChannel(id) == id \in ChannelIds

\* GuildStore.getGuild(id): <<guild>>, or <<>> for undefined; a guild carries
\* its roles
getGuild(id) ==
    IF id \in host.knownGuilds THEN <<[id |-> id, roles |-> [r \in {RoleId} |-> "mods"]]>> ELSE <<>>

\* guild.getRole(id)?.name, "" when the guild has no such role
getRoleName(guild, id) == IF id \in DOMAIN guild.roles THEN guild.roles[id] ELSE ""

\* RelationshipStore.isFriend(id)
isFriend(id) == id \in host.friends

\* RelationshipStore.getNickname(id): <<nickname>>, or <<>> for undefined
getNickname(id) == IF id = BobId THEN <<"Bobby">> ELSE <<>>

\* MuteStore.isChannelMuted(null, channelId)
isChannelMuted(channelId) == channelId \in host.mutedChannels

\* MuteStore.isGuildOrCategoryOrChannelMuted(guildId, channelId)
isGuildOrCategoryOrChannelMuted(guildId, channelId) ==
    guildId \in host.mutedGuilds \/ channelId \in host.mutedChannels

\* ApplicationStreamingStore.getState().activeStreams?.length >= 1
isStreamingNow == host.activeStreams >= 1

(***************************************************************************)
(* getName, getAvatarURL (lines 175-181).                                  *)
(***************************************************************************)
\* UserUtils.getName(user): the global display name, else the username
userUtilsGetName(user) == IF user.globalName # "" THEN user.globalName ELSE user.username

getName(user) ==
    IF getNickname(user.id) # <<>> THEN getNickname(user.id)[1] ELSE userUtilsGetName(user)

getAvatarURL(user) ==
    "https://cdn.discordapp.com/avatars/" \o user.id \o "/" \o user.avatar \o ".png?size=128"

(***************************************************************************)
(* addMention (lines 183-196).  The span is a record; name is <<text>>, or *)
(* <<>> when the code leaves `name` undefined.  kind "throw" stands for    *)
(* the TypeError of calling getRole on an undefined guild.                 *)
(***************************************************************************)
orElse(s, fallback) == IF s # "" THEN s ELSE fallback

addMention(id, type, guildId) ==
    CASE type = "user" ->
            [kind |-> "mention", type |-> type, id |-> id,
             name |-> <<"@" \o orElse(IF getUser(id) # <<>> THEN getUser(id)[1].username ELSE "", "unknown-user")>>]
      [] type = "channel" ->
            [kind |-> "mention", type |-> type, id |-> id,
             name |-> <<"#" \o orElse(IF getChannel(id) # <<>> THEN getChannel(id)[1].name ELSE "", "unknown-channel")>>]
      [] type = "role" /\ guildId # "" ->
            IF getGuild(guildId) = <<>>
            THEN [kind |-> "throw", type |-> type, id |-> id, name |-> <<>>]
            ELSE [kind |-> "mention", type |-> type, id |-> id,
                  name |-> <<"@" \o orElse(getRoleName(getGuild(guildId)[1], id), "unknown-role")>>]
      [] OTHER ->
            [kind |-> "mention", type |-> type, id |-> id, name |-> <<>>]

(***************************************************************************)
(* USER_MENTION_REGEX (line 35):                                           *)
(*   /<@!?(\d{17,20})>|<#(\d{17,20})>|<@&(\d{17,20})>/g                    *)
(***************************************************************************)
MinIdLen == 17

MaxIdLen == 20

\* \d{17,20} followed by ">" at position p: the number of digits, or 0
idLenAt(s, p) ==
    LET r == RunLen(s, p, Digits)
    IN  IF r >= MinIdLen /\ r <= MaxIdLen /\ charAt(s, p + r) = ">" THEN r ELSE 0

NoMatch == [len |-> 0, type |-> "", id |-> ""]

\* the match of the pattern that starts exactly at position i, if any
mentionMatchAt(s, i) ==
    LET userAt == IF charAt(s, i + 2) = "!" THEN i + 3 ELSE i + 2
        userLen == idLenAt(s, userAt)
        channelLen == idLenAt(s, i + 2)
        roleLen == idLenAt(s, i + 3)
    IN  IF charAt(s, i) # "<" THEN NoMatch
        ELSE IF charAt(s, i + 1) = "@" /\ userLen > 0
             THEN [len |-> userAt + userLen + 1 - i, type |-> "user",
                   id |-> substring(s, userAt, userAt + userLen)]
        ELSE IF charAt(s, i + 1) = "#" /\ channelLen > 0
             THEN [len |-> channelLen + 3, type |-> "channel",
                   id |-> substring(s, i + 2, i + 2 + channelLen)]
        ELSE IF charAt(s, i + 1) = "@" /\ charAt(s, i + 2) = "&" /\ roleLen > 0
             THEN [len |-> roleLen + 4, type |-> "role",
                   id |-> substring(s, i + 3, i + 3 + roleLen)]
        ELSE NoMatch

(***************************************************************************)
(* parseMentions (lines 198-211).  A plain-text segment is a record of     *)
(* kind "text".                                                            *)
(***************************************************************************)
Text(s) == [kind |-> "text", text |-> s]

\* where the next match at or after position i starts; Len(s) when there is none
nextMention(s, i) ==
    Least({p \in i..Len(s) : p = Len(s) \/ mentionMatchAt(s, p).len > 0})

\* the replace callback (lines 202-207) run for every match from lastIndex on,
\* then line 209
RECURSIVE parseMentionsFrom(_, _, _)
parseMentionsFrom(body, lastIndex, guildId) ==
    LET offset == nextMention(body, lastIndex)
        m == mentionMatchAt(body, offset)
    IN  IF offset = Len(body)
        THEN IF lastIndex < Len(body) THEN <<Text(sliceFrom(body, lastIndex))>> ELSE <<>>
        ELSE <<Text(slice(body, lastIndex, offset)), addMention(m.id, m.type, guildId)>>
             \o parseMentionsFrom(body, offset + m.len, guildId)

\* lines 198-211 without line 209: the text after the last token is lost
RECURSIVE parseMentionsFromNoTail(_, _, _)
parseMentionsFromNoTail(body, lastIndex, guildId) ==
    LET offset == nextMention(body, lastIndex)
        m == mentionMatchAt(body, offset)
    IN  IF offset = Len(body)
        THEN <<>>
        ELSE <<Text(slice(body, lastIndex, offset)), addMention(m.id, m.type, guildId)>>
             \o parseMentionsFromNoTail(body, offset + m.len, guildId)

parseMentionsNoTail(body, channel) == parseMentionsFromNoTail(body, 0, channel.guild_id)

parseMentions(body, channel) == parseMentionsFrom(body, 0, channel.guild_id)

\* an addMention call of these elements threw
Throws(elements) == \E k \in 1..Len(elements) : elements[k].kind = "throw"

(***************************************************************************)
(* formatEmotes (lines 213-215):                                           *)
(*   body.replace(/(<a?:\w+:\d+>)/g, m => `:${m.split(":")[1]}:`)          *)
(***************************************************************************)
NoEmote == [len |-> 0, name |-> ""]

emoteMatchAt(s, i) ==
    LET colon == IF charAt(s, i + 1) = "a" THEN i + 2 ELSE i + 1
        w == RunLen(s, colon + 1, WordChars)
        d == RunLen(s, colon + 2 + w, Digits)
    IN  IF /\ charAt(s, i) = "<"
           /\ charAt(s, colon) = ":"
           /\ w >= 1
           /\ charAt(s, colon + 1 + w) = ":"
           /\ d >= 1
           /\ charAt(s, colon + 2 + w + d) = ">"
        THEN [len |-> colon + 3 + w + d - i, name |-> substring(s, colon + 1, colon + 1 + w)]
        ELSE NoEmote

\* where the next match at or after position i starts; Len(s) when there is none
nextEmote(s, i) ==
    Least({p \in i..Len(s) : p = Len(s) \/ emoteMatchAt(s, p).len > 0})

RECURSIVE formatEmotesFrom(_, _)
formatEmotesFrom(body, i) ==
    LET offset == nextEmote(body, i)
        m == emoteMatchAt(body, offset)
    IN  IF offset = Len(body) THEN sliceFrom(body, i)
        ELSE slice(body, i, offset) \o ":" \o m.name \o ":"
             \o formatEmotesFrom(body, offset + m.len)

formatEmotes(body) == formatEmotesFrom(body, 0)

(***************************************************************************)
(* getNotificationTitle (lines 217-225).                                   *)
(***************************************************************************)
\* s.trim()
RECURSIVE trim(_)
trim(s) ==
    IF s = "" THEN ""
    ELSE IF charAt(s, 0) \in SpaceChars THEN trim(sliceFrom(s, 1))
    ELSE IF charAt(s, Len(s) - 1) \in SpaceChars THEN trim(substring(s, 0, Len(s) - 1))
    ELSE s

\* list.map(e => e.username).join(", ")
RECURSIVE joinUsernames(_)
joinUsernames(users) ==
    IF users = <<>> THEN ""
    ELSE IF Len(users) = 1 THEN users[1].username
    ELSE users[1].username \o ", " \o joinUsernames(Tail(users))

\* the title's parenthetical is cut to this many characters (line 220)
TitleLimit == 20

\* rawRecipients.slice(0, 3) (line 219)
TitleRecipients == 3

getNotificationTitle(message, channel) ==
    IF isGroupDM(channel)
    THEN LET channelName == orElse(trim(channel.name),
                                   joinUsernames(SubSeq(channel.rawRecipients, 1,
                                       Min(TitleRecipients, Len(channel.rawRecipients)))))
             cut == IF Len(channelName) > TitleLimit
                    THEN substring(channelName, 0, TitleLimit) \o "..."
                    ELSE channelName
         IN  message.author.username \o " (" \o cut \o ")"
    ELSE IF channel.guild_id # ""
         THEN getName(message.author) \o " (#" \o channel.name \o ")"
         ELSE getName(message.author)

(***************************************************************************)
(* getNotificationBody (lines 227-261).  The result is [ok, value]; ok is  *)
(* FALSE when the code throws a TypeError (a property read of undefined).  *)
(* message.embeds is the number of embeds; message.stickerItems is <<>>    *)
(* for undefined and <<list>> for an array, which is truthy also when      *)
(* empty.                                                                  *)
(***************************************************************************)
Thrown == [ok |-> FALSE, value |-> ""]

Returned(v) == [ok |-> TRUE, value |-> v]

\* s.replace(/[<@!>]/g, "")
RECURSIVE stripMentionChars(_)
stripMentionChars(s) ==
    IF s = "" THEN ""
    ELSE (IF charAt(s, 0) \in {"<", "@", "!", ">"} THEN "" ELSE charAt(s, 0))
         \o stripMentionChars(sliceFrom(s, 1))

\* UserStore.getUser(message.mentions[0]?.replace(/[<@!>]/g, ""))
targetUserOf(message) ==
    IF message.mentions = <<>> THEN <<>> ELSE getUser(stripMentionChars(message.mentions[1]))

\* attachments.filter(e => e?.content_type?.startsWith("image"))
imagesOf(attachments) ==
    SelectSeq(attachments, LAMBDA e : substring(e.content_type, 0, 5) = "image")

getNotificationBody(message, channel) ==
    LET actor == getUser(message.author.id)
        targetUser == targetUserOf(message)
    IN  CASE message.type = "CALL" -> Returned("Started a call with you!")
          [] message.type = "CHANNEL_RECIPIENT_ADD" ->
                IF targetUser = <<>> \/ actor = <<>> THEN Thrown
                ELSE Returned(getName(targetUser[1]) \o " was added to the group by "
                              \o getName(actor[1]) \o ".")
          [] message.type = "CHANNEL_RECIPIENT_REMOVE" ->
                IF targetUser = <<>> \/ actor = <<>> THEN Thrown
                ELSE IF actor[1].id # targetUser[1].id
                     THEN Returned(getName(targetUser[1]) \o " was removed from the group by "
                                   \o getName(actor[1]) \o ".")
                     ELSE Returned("Left the group.")
          [] message.type = "CHANNEL_NAME_CHANGE" ->
                Returned("Changed the channel name to '" \o message.content \o "'.")
          [] message.type = "CHANNEL_ICON_CHANGE" -> Returned("Changed the channel icon.")
          [] message.type = "CHANNEL_PINNED_MESSAGE" -> Returned("Pinned a message.")
          [] OTHER ->
                IF message.embeds > 0 THEN Returned(orElse(message.content, "Sent an embed."))
                ELSE IF message.stickerItems # <<>>
                     THEN Returned(orElse(message.content, "Sent a sticker."))
                ELSE IF Len(message.attachments) > 0
                     THEN IF Len(imagesOf(message.attachments)) > 0
                          THEN Returned(message.content)
                          ELSE Returned(message.content \o " [Attachment: "
                                        \o message.attachments[1].filename \o "]")
                ELSE Returned(message.content)

(***************************************************************************)
(* buildNotificationData (lines 263-294).  richBody <<>> is null: the code *)
(* stores null exactly when parseMentions returned no element.  image is   *)
(* <<url>>, or <<>> when the field is not set.  The result is [ok, value]. *)
(***************************************************************************)
buildNotificationData(message, channel, onClick) ==
    LET raw == getNotificationBody(message, channel)
        body == formatEmotes(raw.value)
        richBodyElements ==
            IF Len(message.mentions) > 0 \/ Len(message.mentionRoles) > 0
            THEN parseMentions(body, channel)
            ELSE <<>>
        images == imagesOf(message.attachments)
    IN  IF ~raw.ok \/ Throws(richBodyElements)
        THEN [ok |-> FALSE, value |-> <<>>]
        ELSE [ok |-> TRUE,
              value |-> [title |-> getNotificationTitle(message, channel),
                         icon |-> getAvatarURL(message.author),
                         body |-> limitMessageLength(body, Len(message.attachments) > 0),
                         attachments |-> Len(message.attachments),
                         richBody |-> richBodyElements,
                         permanent |-> FALSE,
                         onClick |-> onClick,
                         image |-> IF Len(images) > 0 THEN <<images[1].url>> ELSE <<>>]]

(***************************************************************************)
(* Enumerations (lines 37-41 and 367-371).                                 *)
(***************************************************************************)
NORMAL == 0

NO_CONTENT == 1

IGNORE == 2

ALL_MESSAGES == 0

ONLY_MENTIONS == 1

NO_MESSAGES == 2

(***************************************************************************)
(* findNotificationLevel (lines 373-390).  The guild's entry of            *)
(* UserGuildSettingsStore is <<entry>> or <<>>; message_notifications is   *)
(* <<number>>, or <<>> where the key is missing.                           *)
(***************************************************************************)
\* lines 373-390 with the channel override (lines 385-386) consulted before
\* the test of lines 377-380
findNotificationLevelOverrideFirst(channel) ==
    LET userGuildSettings == host.userGuildSettings
        off == \/ ~settings.determineServerNotifications
               \/ isGuildOrCategoryOrChannelMuted(channel.guild_id, channel.id)
    IN  IF userGuildSettings # <<>>
        THEN LET overrides == userGuildSettings[1].channel_overrides
                 guildDefault == userGuildSettings[1].message_notifications
             IN  IF /\ channel.id \in DOMAIN overrides
                    /\ overrides[channel.id].message_notifications # <<>>
                 THEN overrides[channel.id].message_notifications[1]
                 ELSE IF ~off /\ guildDefault # <<>> THEN guildDefault[1]
                 ELSE NO_MESSAGES
        ELSE NO_MESSAGES

findNotificationLevel(channel) ==
    LET userGuildSettings == host.userGuildSettings
    IN  IF \/ ~settings.determineServerNotifications
           \/ isGuildOrCategoryOrChannelMuted(channel.guild_id, channel.id)
        THEN NO_MESSAGES
        ELSE IF userGuildSettings # <<>>
             THEN LET overrides == userGuildSettings[1].channel_overrides
                      guildDefault == userGuildSettings[1].message_notifications
                  IN  IF /\ channel.id \in DOMAIN overrides
                         /\ overrides[channel.id].message_notifications # <<>>
                      THEN overrides[channel.id].message_notifications[1]
                      ELSE IF guildDefault # <<>> THEN guildDefault[1]
                      ELSE NO_MESSAGES
             ELSE NO_MESSAGES

(***************************************************************************)
(* What a handler did: the showNotification calls it made, in order, and   *)
(* whether it ended with an exception.                                     *)
(***************************************************************************)
Outcome(notifications, exception) == [shown |-> notifications, threw |-> exception]

Nothing == Outcome(<<>>, FALSE)

RedactedBody == "Message content has been redacted."

(***************************************************************************)
(* handleGuildMessage (lines 392-430).                                     *)
(***************************************************************************)
\* the closure () => switchChannels(guildId, channelId)
SwitchChannels(guildId, channelId) ==
    [action |-> "switchChannels", guildId |-> guildId, channelId |-> channelId]

\* lines 396-409: the message is dropped for its notification level
guildSuppression(message, channel) ==
    LET notificationLevel == findNotificationLevel(channel)
        all == listIncludes(notifyFor, message.channel_id)
        friend == settings.friendServerNotifications /\ isFriend(message.author.id)
        isMention == includes(message.content, "<@" \o getCurrentUser.id \o ">")
        meetsMentionCriteria == notificationLevel # ALL_MESSAGES /\ ~isMention
    IN  ~all /\ ~friend /\ (notificationLevel = NO_MESSAGES \/ meetsMentionCriteria)

\* lines 417-427 without the disableMessageBody test of line 423
redactGuildStreamingOnly(notification) ==
    IF isStreamingNow /\ settings.streamingTreatment = NO_CONTENT
    THEN [notification EXCEPT !.body = RedactedBody, !.richBody = <<>>]
    ELSE notification

\* lines 417-427
redactGuild(notification) ==
    IF \/ (isStreamingNow /\ settings.streamingTreatment = NO_CONTENT)
       \/ settings.disableMessageBody
    THEN [notification EXCEPT !.body = RedactedBody, !.richBody = <<>>]
    ELSE notification

handleGuildMessage(message) ==
    LET channel == Channel(message.channel_id)
        built == buildNotificationData(message, channel,
                                       SwitchChannels(channel.guild_id, channel.id))
    IN  IF guildSuppression(message, channel) THEN Nothing
        ELSE IF ~built.ok THEN Outcome(<<>>, TRUE)
        ELSE Outcome(<<redactGuild(built.value)>>, FALSE)

(***************************************************************************)
(* flux.MESSAGE_CREATE (lines 306-351).                                    *)
(***************************************************************************)
\* the closure () => SelectedChannelActionCreators.selectPrivateChannel(channelId)
SelectPrivateChannel(channelId) ==
    [action |-> "selectPrivateChannel", guildId |-> "", channelId |-> channelId]

\* lines 317-323 without the test of line 320
generalSuppressionNotSelf(message, channel) ==
    \/ (settings.disableInStreamerMode /\ host.streamerMode)
    \/ (isStreamingNow /\ settings.streamingTreatment = IGNORE)
    \/ channel.id = host.selectedChannelId
    \/ listIncludes(ignoredUsers, message.author.id)

\* lines 317-323 without the test of line 321
generalSuppressionNotFocused(message, channel) ==
    \/ (settings.disableInStreamerMode /\ host.streamerMode)
    \/ (isStreamingNow /\ settings.streamingTreatment = IGNORE)
    \/ message.author.id = getCurrentUser.id
    \/ listIncludes(ignoredUsers, message.author.id)

\* lines 317-323 with the ignore list consulted for private channels only,
\* as the superseded revision did for the general checks
generalSuppressionNotIgnored(message, channel) ==
    \/ (settings.disableInStreamerMode /\ host.streamerMode)
    \/ (isStreamingNow /\ settings.streamingTreatment = IGNORE)
    \/ message.author.id = getCurrentUser.id
    \/ channel.id = host.selectedChannelId
    \/ (channel.guild_id = "" /\ listIncludes(ignoredUsers, message.author.id))

\* lines 317-323
generalSuppression(message, channel) ==
    LET currentUser == getCurrentUser
        isStreaming == isStreamingNow
        streamerMode == settings.disableInStreamerMode
        currentUserStreamerMode == host.streamerMode
    IN  \/ (streamerMode /\ currentUserStreamerMode)
        \/ (isStreaming /\ settings.streamingTreatment = IGNORE)
        \/ message.author.id = currentUser.id
        \/ channel.id = host.selectedChannelId
        \/ listIncludes(ignoredUsers, message.author.id)

\* lines 330-334
privateSuppression(channel) ==
    \/ (~settings.directMessages /\ isDM(channel))
    \/ (~settings.groupMessages /\ isGroupDM(channel))
    \/ isChannelMuted(channel.id)

\* lines 342-348
redactPrivate(notification) ==
    IF \/ (isStreamingNow /\ settings.streamingTreatment = NO_CONTENT)
       \/ settings.disableMessageBody
    THEN [notification EXCEPT !.body = RedactedBody, !.richBody = <<>>]
    ELSE notification

messageCreate(message) ==
    LET channel == Channel(message.channel_id)
        built == buildNotificationData(message, channel,
                                       SelectPrivateChannel(message.channel_id))
    IN  IF generalSuppression(message, channel) THEN Nothing
        ELSE IF channel.guild_id # "" THEN handleGuildMessage(message)
        ELSE IF privateSuppression(channel) THEN Nothing
        ELSE IF ~built.ok THEN Outcome(<<>>, TRUE)
        ELSE Outcome(<<redactPrivate(built.value)>>, FALSE)

(***************************************************************************)
(* relationshipAdd (lines 432-456) and flux.RELATIONSHIP_ADD (353-356).    *)
(***************************************************************************)
relationshipAdd(user, type) ==
    LET stored == getUser(user.id)
        base == [title |-> "", icon |-> "", body |-> "", attachments |-> 0,
                 onClick |-> SwitchChannels("", "")]
    IN  IF ~settings.friendActivity THEN Nothing
        ELSE IF stored = <<>> THEN Outcome(<<>>, TRUE)
        ELSE IF type = "FRIEND"
             THEN Outcome(<<[base EXCEPT
                                !.icon = getAvatarURL(stored[1]),
                                !.title = stored[1].username \o " is now your friend",
                                !.body = "You can now message them directly.",
                                !.onClick = SwitchChannels("", stored[1].id)]>>, FALSE)
        ELSE IF type = "INCOMING_REQUEST"
             THEN Outcome(<<[base EXCEPT
                                !.icon = getAvatarURL(stored[1]),
                                !.title = stored[1].username \o " sent you a friend request",
                                !.body = "You can accept or decline it in the Friends tab.",
                                !.onClick = SwitchChannels("", "")]>>, FALSE)
        ELSE Nothing

relationshipAddEvent(relationship) ==
    IF listIncludes(ignoredUsers, relationship.user.id)
    THEN Nothing
    ELSE relationshipAdd(relationship.user, relationship.type)

(***************************************************************************)
(* The click handlers (lines 339, 414, 445, 449) and switchChannels        *)
(* (lines 458-461).  Invoking a handler yields the calls it makes to the   *)
(* navigation services, in order.                                          *)
(***************************************************************************)
\* switchChannels(guildId, channelId); guildId "" stands for null, the only
\* falsy value a caller passes
switchChannels(guildId, channelId) ==
    IF ~hasChannel(channelId) THEN <<>>
    ELSE <<[service |-> "NavigationRouter.transitionTo",
            route |-> "/channels/" \o (IF guildId = "" THEN "@me" ELSE guildId)
                      \o "/" \o channelId \o "/"]>>

\* SelectedChannelActionCreators.selectPrivateChannel(channelId)
selectPrivateChannel(channelId) ==
    <<[service |-> "SelectedChannelActionCreators.selectPrivateChannel", route |-> channelId]>>

\* onClick()
invoke(onClick) ==
    IF onClick.action = "switchChannels"
    THEN switchChannels(onClick.guildId, onClick.channelId)
    ELSE selectPrivateChannel(onClick.channelId)

(***************************************************************************)
(* Which handlers wait for the promise of showNotification.                *)
(***************************************************************************)
\* MESSAGE_CREATE awaits handleGuildMessage (line 326), which awaits
\* showNotification (line 429); the private path calls it bare (line 350)
messageCreateAwaits(message) == Channel(message.channel_id).guild_id # ""

\* RELATIONSHIP_ADD calls relationshipAdd bare (line 355); the await of line
\* 455 suspends relationshipAdd only
relationshipAddAwaits == FALSE

(***************************************************************************)
(* State machine of the plugin.                                            *)
(***************************************************************************)
\* the defaults of definePluginSettings (lines 94-154)
DefaultSettings ==
    [determineServerNotifications |-> TRUE,
     disableInStreamerMode |-> TRUE,
     directMessages |-> TRUE,
     groupMessages |-> TRUE,
     friendServerNotifications |-> TRUE,
     friendActivity |-> TRUE,
     streamingTreatment |-> NORMAL,
     notifyFor |-> "",
     ignoreUsers |-> "",
     disableMessageBody |-> FALSE]

BooleanSettings ==
    {"determineServerNotifications", "disableInStreamerMode", "directMessages",
     "groupMessages", "friendServerNotifications", "friendActivity", "disableMessageBody"}

\* what the user may type into the two list settings
NotifyForChoices == {"", TextId \o ", " \o LostId}

IgnoreUsersChoices == {"", EveId, " " \o BobId \o " ,\t" \o EveId}

\* settings.store as loaded at startup: the defaults, or lists saved earlier
PersistedSettings ==
    {DefaultSettings,
     [DefaultSettings EXCEPT !.notifyFor = TextId \o ", " \o LostId, !.ignoreUsers = EveId]}

\* the values a setting can be changed to
SettingValues(key) ==
    CASE key \in BooleanSettings -> BOOLEAN
      [] key = "streamingTreatment" -> {NORMAL, NO_CONTENT, IGNORE}
      [] key = "notifyFor" -> NotifyForChoices
      [] key = "ignoreUsers" -> IgnoreUsersChoices

\* entries of UserGuildSettingsStore for the guild
GuildSettings(guildDefault, overrides) ==
    <<[message_notifications |-> guildDefault, channel_overrides |-> overrides]>>

NoOverrides == [c \in {} |-> [message_notifications |-> <<>>]]

OverrideFor(channelId, level) == [c \in {channelId} |-> [message_notifications |-> level]]

GuildSettingsChoices ==
    {<<>>}
    \cup {GuildSettings(<<l>>, NoOverrides) : l \in {ALL_MESSAGES, ONLY_MENTIONS, NO_MESSAGES}}
    \cup {GuildSettings(<<NO_MESSAGES>>, OverrideFor(TextId, <<ONLY_MENTIONS>>)),
          GuildSettings(<<ALL_MESSAGES>>, OverrideFor(TextId, <<>>))}

\* the host's stores when the plugin is loaded
InitialHost ==
    [streamerMode |-> FALSE,
     activeStreams |-> 0,
     selectedChannelId |-> "",
     mutedChannels |-> {},
     mutedGuilds |-> {},
     friends |-> {},
     knownUsers |-> UserIds,
     knownGuilds |-> {GuildId},
     userGuildSettings |-> GuildSettings(<<ONLY_MENTIONS>>, NoOverrides)]

Toggle(set, x) == IF x \in set THEN set \ {x} ELSE set \cup {x}

\* the host records one store update away from h
HostUpdates(h) ==
    {[h EXCEPT !.streamerMode = ~@], [h EXCEPT !.activeStreams = 1 - @]}
    \cup {[h EXCEPT !.selectedChannelId = c] : c \in ChannelIds \cup {""}}
    \cup {[h EXCEPT !.mutedChannels = Toggle(@, c)] : c \in ChannelIds}
    \cup {[h EXCEPT !.mutedGuilds = Toggle(@, GuildId)]}
    \cup {[h EXCEPT !.friends = Toggle(@, BobId)]}
    \cup {[h EXCEPT !.knownUsers = Toggle(@, EveId)]}
    \cup {[h EXCEPT !.userGuildSettings = g] : g \in GuildSettingsChoices}

NoEvent == [type |-> "none"]

NoClick == [done |-> FALSE, calls |-> <<>>]

NoCall == [fn |-> "none"]

\* attachments a message may carry
ImageAttachment == [content_type |-> "image/png", filename |-> "cat.png", url |-> "https://cdn/cat.png"]

FileAttachment == [content_type |-> "", filename |-> "notes.txt", url |-> "https://cdn/notes.txt"]

\* message.mentions as the host fills it: the users the content mentions
mentionsOf(content) ==
    IF includes(content, "<@" \o MeId \o ">") \/ includes(content, "<@!" \o MeId \o ">")
    THEN <<MeId>> ELSE <<>>

Message(author, channelId, type, content, mentions, attachments) ==
    [author |-> User(author), channel_id |-> channelId, type |-> type, content |-> content,
     mentions |-> mentions, mentionRoles |-> <<>>, embeds |-> 0, stickerItems |-> <<>>,
     attachments |-> attachments]

Contents == {"hi", "hey <@" \o MeId \o "> look", "<@!" \o MeId \o ">"}

\* the messages the host dispatches
Messages ==
    {Message(BobId, c, "DEFAULT", t, mentionsOf(t), att) :
        c \in ChannelIds, t \in Contents, att \in {<<>>, <<ImageAttachment>>}}
    \cup {Message(MeId, c, "DEFAULT", t, mentionsOf(t), <<>>) : c \in ChannelIds, t \in Contents}
    \cup {Message(BobId, c, "CHANNEL_RECIPIENT_ADD", "", <<EveId>>, <<>>) : c \in ChannelIds}

RelationshipTypes == {"FRIEND", "BLOCKED", "INCOMING_REQUEST"}

Relationships == {[user |-> User(u), type |-> t] : u \in {BobId, EveId}, t \in RelationshipTypes}

Init ==
    /\ settings \in PersistedSettings
    /\ ignoredUsers = <<>>
    /\ notifyFor = <<>>
    /\ host = InitialHost
    /\ started = FALSE
    /\ changes = 0
    /\ event = NoEvent
    /\ shown = <<>>
    /\ threw = FALSE
    /\ handler = "idle"
    /\ toast = "none"
    /\ click = NoClick
    /\ call = NoCall
    /\ result = ""

\* lines 359-364 without line 361: notifyFor is only ever built by its onChange
StartIgnoredUsersOnly ==
    /\ ~started
    /\ started' = TRUE
    /\ ignoredUsers' = stringToList(settings.ignoreUsers)
    /\ UNCHANGED <<settings, notifyFor, host, changes, event, shown, threw, handler, toast, click,
                   call, result>>

\* start() (lines 359-364)
Start ==
    /\ ~started
    /\ started' = TRUE
    /\ ignoredUsers' = stringToList(settings.ignoreUsers)
    /\ notifyFor' = stringToList(settings.notifyFor)
    /\ UNCHANGED <<settings, host, changes, event, shown, threw, handler, toast, click, call, result>>

\* the user changes one setting; notifyFor and ignoreUsers run their onChange
\* (lines 141 and 147)
ChangeSetting ==
    /\ event = NoEvent
    /\ changes < MaxChanges
    /\ \E key \in DOMAIN settings : \E value \in SettingValues(key) :
          /\ value # settings[key]
          /\ settings' = [settings EXCEPT ![key] = value]
          /\ notifyFor' = IF key = "notifyFor" THEN stringToList(value) ELSE notifyFor
          /\ ignoredUsers' = IF key = "ignoreUsers" THEN stringToList(value) ELSE ignoredUsers
    /\ changes' = changes + 1
    /\ UNCHANGED <<host, started, event, shown, threw, handler, toast, click, call, result>>

\* the host updates one of its stores
HostChange ==
    /\ event = NoEvent
    /\ changes < MaxChanges
    /\ \E h \in HostUpdates(host) :
          /\ h # host
          /\ host' = h
    /\ changes' = changes + 1
    /\ UNCHANGED <<settings, ignoredUsers, notifyFor, started, event, shown, threw, handler, toast, click, call, result>>

\* the host dispatches MESSAGE_CREATE; the dispatcher handles one event at a time
MESSAGE_CREATE ==
    /\ started
    /\ event = NoEvent
    /\ \E message \in Messages : \E outcome \in {messageCreate(message)} :
          /\ event' = [type |-> "MESSAGE_CREATE", message |-> message]
          /\ shown' = outcome.shown
          /\ threw' = outcome.threw
          /\ handler' = IF outcome.shown # <<>> /\ messageCreateAwaits(message)
                        THEN "awaiting" ELSE "settled"
          /\ toast' = IF outcome.shown # <<>> THEN "open" ELSE "none"
    /\ UNCHANGED <<settings, ignoredUsers, notifyFor, host, started, changes, click, call, result>>

\* the host dispatches RELATIONSHIP_ADD
RELATIONSHIP_ADD ==
    /\ started
    /\ event = NoEvent
    /\ \E relationship \in Relationships : \E outcome \in {relationshipAddEvent(relationship)} :
          /\ event' = [type |-> "RELATIONSHIP_ADD", relationship |-> relationship]
          /\ shown' = outcome.shown
          /\ threw' = outcome.threw
          /\ handler' = IF outcome.shown # <<>> /\ relationshipAddAwaits
                        THEN "awaiting" ELSE "settled"
          /\ toast' = IF outcome.shown # <<>> THEN "open" ELSE "none"
    /\ UNCHANGED <<settings, ignoredUsers, notifyFor, host, started, changes, click, call, result>>

\* the presentation service is done with the toast (it timed out or was
\* closed): the promise showNotification returned resolves
ShowNotificationResolves ==
    /\ toast = "open"
    /\ toast' = "closed"
    /\ UNCHANGED <<settings, ignoredUsers, notifyFor, host, started, changes, event, shown, threw,
                   handler, click, call, result>>

\* the handler suspended at `await showNotification(...)` runs to its end
HandlerResumes ==
    /\ handler = "awaiting"
    /\ toast = "closed"
    /\ handler' = "settled"
    /\ UNCHANGED <<settings, ignoredUsers, notifyFor, host, started, changes, event, shown, threw,
                   toast, click, call, result>>

\* the user clicks the toast: the presentation service invokes onClick
Click ==
    /\ toast = "open"
    /\ ~click.done
    /\ click' = [done |-> TRUE, calls |-> invoke(shown[1].onClick)]
    /\ UNCHANGED <<settings, ignoredUsers, notifyFor, host, started, changes, event, shown, threw,
                   handler, toast, call, result>>

\* the handler has settled and its toast is gone; the next event is dispatched
Dismiss ==
    /\ event # NoEvent
    /\ handler = "settled"
    /\ toast # "open"
    /\ event' = NoEvent
    /\ shown' = <<>>
    /\ threw' = FALSE
    /\ handler' = "idle"
    /\ toast' = "none"
    /\ click' = NoClick
    /\ UNCHANGED <<settings, ignoredUsers, notifyFor, host, started, changes, call, result>>

Next ==
    \/ Start \/ ChangeSetting \/ HostChange \/ MESSAGE_CREATE \/ RELATIONSHIP_ADD
    \/ ShowNotificationResolves \/ HandlerResumes \/ Click \/ Dismiss

Spec == Init /\ [][Next]_vars

(***************************************************************************)
(* The pure functions, applied to bounded inputs: one call at a time, the  *)
(* arguments kept in `call` and the value returned in `result`.            *)
(***************************************************************************)
Idle ==
    /\ settings = DefaultSettings
    /\ ignoredUsers = <<>>
    /\ notifyFor = <<>>
    /\ host = InitialHost
    /\ started = FALSE
    /\ changes = 0
    /\ event = NoEvent
    /\ shown = <<>>
    /\ threw = FALSE
    /\ handler = "idle"
    /\ toast = "none"
    /\ click = NoClick
    /\ call = NoCall
    /\ result = ""

\* the call returned and its value was consumed
Return ==
    /\ call # NoCall
    /\ call' = NoCall
    /\ result' = ""
    /\ UNCHANGED <<settings, ignoredUsers, notifyFor, host, started, changes, event, shown, threw,
                   handler, toast, click>>

\* a body of n characters: the digits in turn, or nothing but full stops
DigitRuler ==
    "01234567890123456789012345678901234567890123456789"
    \o "01234567890123456789012345678901234567890123456789"
    \o "01234567890123456789012345678901234567890123456789"
    \o "01234567890123456789012345678901234567890123456789"

StopRuler ==
    ".................................................."
    \o ".................................................."
    \o ".................................................."
    \o ".................................................."

BodyOf(n, fill) == SubSeq(IF fill = "." THEN StopRuler ELSE DigitRuler, 1, n)

\* limitMessageLength(body, hasAttachments)
LimitMessageLength ==
    /\ call = NoCall
    /\ \E n \in 0..MaxBodyLen, fill \in {"", "."}, hasAttachments \in BOOLEAN :
          /\ call' = [fn |-> "limitMessageLength", body |-> BodyOf(n, fill),
                      hasAttachments |-> hasAttachments]
          /\ result' = limitMessageLength(BodyOf(n, fill), hasAttachments)
    /\ UNCHANGED <<settings, ignoredUsers, notifyFor, host, started, changes, event, shown, threw,
                   handler, toast, click>>

NextLimit == LimitMessageLength \/ Return

SpecLimit == Idle /\ [][NextLimit]_vars

\* the pieces a body is put together from: plain text, the four token forms,
\* and near-tokens whose id is one digit short or one digit long
Piece(text, type, id) == [text |-> text, type |-> type, id |-> id]

Pieces ==
    {Piece("hi ", "", ""),
     Piece("<", "", ""),
     Piece("<@" \o BodyOf(MinIdLen - 1, "") \o ">", "", ""),
     Piece("<#" \o BodyOf(MaxIdLen + 1, "") \o ">", "", ""),
     Piece("<@" \o MeId \o ">", "user", MeId),
     Piece("<@!" \o LostId \o ">", "user", LostId),
     Piece("<#" \o TextId \o ">", "channel", TextId),
     Piece("<@&" \o RoleId \o ">", "role", RoleId)}

RECURSIVE Concat(_)
Concat(pieces) == IF pieces = <<>> THEN "" ELSE pieces[1].text \o Concat(Tail(pieces))

\* parseMentions(body, channel)
ParseMentions ==
    /\ call = NoCall
    /\ \E n \in 0..MaxPieces : \E pieces \in [1..n -> Pieces] : \E c \in {DmId, TextId} :
          /\ call' = [fn |-> "parseMentions", pieces |-> pieces, body |-> Concat(pieces),
                      channel |-> c]
          /\ result' = parseMentions(Concat(pieces), Channel(c))
    /\ UNCHANGED <<settings, ignoredUsers, notifyFor, host, started, changes, event, shown, threw,
                   handler, toast, click>>

NextMentions == ParseMentions \/ Return

SpecMentions == Idle /\ [][NextMentions]_vars

\* the sticker of a message that carries one
Sticker == [id |-> "1", name |-> "wave"]

MessageTypes ==
    {"DEFAULT", "CALL", "CHANNEL_RECIPIENT_ADD", "CHANNEL_RECIPIENT_REMOVE",
     "CHANNEL_NAME_CHANGE", "CHANNEL_ICON_CHANGE", "CHANNEL_PINNED_MESSAGE"}

\* getNotificationBody(message, channel) for a message of bob in the group
\* DM: every type, with and without content, embeds, stickers (the field
\* undefined, empty or holding a sticker) and attachments (files and images)
GetNotificationBody ==
    /\ call = NoCall
    /\ \E type \in MessageTypes, content \in {"", "hi"}, embeds \in {0, 1},
          stickerItems \in {<<>>, <<<<>>>>, <<<<Sticker>>>>},
          attachments \in {<<>>, <<ImageAttachment>>, <<FileAttachment>>,
                           <<FileAttachment, ImageAttachment>>} :
          LET message == [Message(BobId, GroupId, type, content, <<EveId>>, attachments)
                             EXCEPT !.embeds = embeds, !.stickerItems = stickerItems]
          IN  /\ call' = [fn |-> "getNotificationBody", message |-> message]
              /\ result' = getNotificationBody(message, Channel(GroupId))
    /\ UNCHANGED <<settings, ignoredUsers, notifyFor, host, started, changes, event, shown, threw,
                   handler, toast, click>>

NextBody == GetNotificationBody \/ Return

SpecBody == Idle /\ [][NextBody]_vars

\* what the content of a message handed to buildNotificationData is put
\* together from: short text, text of 160 characters, a user mention, a
\* channel mention and a custom emote
BuildPieces ==
    {Piece("hi ", "", ""),
     Piece(BodyOf(160, "."), "", ""),
     Piece("<@" \o MeId \o ">", "user", MeId),
     Piece("<#" \o TextId \o ">", "channel", TextId),
     Piece("<:wave:" \o RoleId \o ">", "", "")}

\* buildNotificationData(message, channel, onClick) for a message of bob in
\* the guild channel, with or without an image attached
BuildNotificationData ==
    /\ call = NoCall
    /\ \E n \in 0..MaxPieces : \E pieces \in [1..n -> BuildPieces] :
       \E attachments \in {<<>>, <<ImageAttachment>>} :
          LET content == Concat(pieces)
              message == Message(BobId, TextId, "DEFAULT", content, mentionsOf(content),
                                 attachments)
          IN  /\ call' = [fn |-> "buildNotificationData", message |-> message,
                          channel |-> TextId]
              /\ result' = buildNotificationData(message, Channel(TextId),
                                                 SwitchChannels(GuildId, TextId))
    /\ UNCHANGED <<settings, ignoredUsers, notifyFor, host, started, changes, event, shown, threw,
                   handler, toast, click>>

NextBuild == BuildNotificationData \/ Return

SpecBuild == Idle /\ [][NextBuild]_vars

\* entries of UserGuildSettingsStore for findNotificationLevel: none, or a
\* guild default (a number or not) with no override, an override of this or
\* of another channel, or an override object without message_notifications
LevelSettings ==
    {<<>>}
    \cup {GuildSettings(d, o) :
            d \in {<<>>, <<ALL_MESSAGES>>, <<ONLY_MENTIONS>>, <<NO_MESSAGES>>},
            o \in {NoOverrides, OverrideFor(TextId, <<>>), OverrideFor(DmId, <<ALL_MESSAGES>>)}
                  \cup {OverrideFor(TextId, <<l>>) :
                           l \in {ALL_MESSAGES, ONLY_MENTIONS, NO_MESSAGES}}}

LevelHosts ==
    {[InitialHost EXCEPT !.mutedGuilds = g, !.mutedChannels = c, !.userGuildSettings = u] :
        g \in {{}, {GuildId}}, c \in {{}, {TextId}}, u \in LevelSettings}

IdleLevels ==
    /\ settings \in {DefaultSettings,
                      [DefaultSettings EXCEPT !.determineServerNotifications = FALSE]}
    /\ ignoredUsers = <<>>
    /\ notifyFor = <<>>
    /\ host \in LevelHosts
    /\ started = FALSE
    /\ changes = 0
    /\ event = NoEvent
    /\ shown = <<>>
    /\ threw = FALSE
    /\ handler = "idle"
    /\ toast = "none"
    /\ click = NoClick
    /\ call = NoCall
    /\ result = ""

\* findNotificationLevel(channel) for the guild channel
FindNotificationLevel ==
    /\ call = NoCall
    /\ call' = [fn |-> "findNotificationLevel", channel |-> TextId]
    /\ result' = findNotificationLevel(Channel(TextId))
    /\ UNCHANGED <<settings, ignoredUsers, notifyFor, host, started, changes, event, shown, threw,
                   handler, toast, click>>

NextLevel == FindNotificationLevel \/ Return

SpecLevel == IdleLevels /\ [][NextLevel]_vars

\* the stores an addMention call may find: the user 33333333333333333 and the
\* guild resolved or not
MentionHosts ==
    {[InitialHost EXCEPT !.knownUsers = u, !.knownGuilds = g] :
        u \in {UserIds, UserIds \ {EveId}}, g \in {{GuildId}, {}}}

\* ids of users, channels and roles, resolvable or not
MentionIds == {MeId, BobId, EveId, LostId, DmId, TextId, RoleId}

IdleStores ==
    /\ settings = DefaultSettings
    /\ ignoredUsers = <<>>
    /\ notifyFor = <<>>
    /\ host \in MentionHosts
    /\ started = FALSE
    /\ changes = 0
    /\ event = NoEvent
    /\ shown = <<>>
    /\ threw = FALSE
    /\ handler = "idle"
    /\ toast = "none"
    /\ click = NoClick
    /\ call = NoCall
    /\ result = ""

\* addMention(id, type, guildId); guildId "" is the guild_id of a channel
\* outside guilds
AddMention ==
    /\ call = NoCall
    /\ \E id \in MentionIds, type \in {"user", "channel", "role"}, guildId \in {"", GuildId} :
          /\ call' = [fn |-> "addMention", id |-> id, type |-> type, guildId |-> guildId]
          /\ result' = addMention(id, type, guildId)
    /\ UNCHANGED <<settings, ignoredUsers, notifyFor, host, started, changes, event, shown, threw,
                   handler, toast, click>>

NextAddMention == AddMention \/ Return

SpecAddMention == IdleStores /\ [][NextAddMention]_vars

(***************************************************************************)
(* Properties of the handlers, checked under Spec.                         *)
(***************************************************************************)
IsMessage == event.type = "MESSAGE_CREATE"

IsRelationship == event.type = "RELATIONSHIP_ADD"

\* the channel of the message handled last
EventChannel == Channel(event.message.channel_id)

\* the suppression conditions of the general checks, stated on the state
SelfAuthored == event.message.author.id = MeId

Focused == event.message.channel_id = host.selectedChannelId

SenderIgnored == listIncludes(ignoredUsers, event.message.author.id)

StreamerSuppressed == host.streamerMode /\ settings.disableInStreamerMode

ScreenshareIgnored == host.activeStreams >= 1 /\ settings.streamingTreatment = IGNORE

PassedGeneralChecks ==
    ~SelfAuthored /\ ~Focused /\ ~SenderIgnored /\ ~StreamerSuppressed /\ ~ScreenshareIgnored

\* C1: a MESSAGE_CREATE whose author is the current user never calls
\* showNotification, in any channel kind and under any settings and lists.
C1_SelfAuthoredSilent == (IsMessage /\ SelfAuthored) => shown = <<>>

C1_Witness ==
    /\ IsMessage /\ SelfAuthored
    /\ EventChannel.guild_id # ""
    /\ listIncludes(notifyFor, event.message.channel_id)
    /\ ~Focused /\ ~StreamerSuppressed /\ ~ScreenshareIgnored
    /\ shown = <<>>

\* C2: a MESSAGE_CREATE in the currently selected channel never calls
\* showNotification, in any channel kind and under any settings.
C2_FocusedSilent == (IsMessage /\ Focused) => shown = <<>>

C2_Witness ==
    /\ IsMessage /\ Focused
    /\ isDM(EventChannel)
    /\ ~SelfAuthored /\ ~SenderIgnored /\ ~StreamerSuppressed /\ ~ScreenshareIgnored
    /\ settings.directMessages /\ EventChannel.id \notin host.mutedChannels
    /\ shown = <<>>

\* C3: a MESSAGE_CREATE in a muted channel produces no notification, whatever
\* the channel kind, also for a guild channel of the always-notify list or a
\* friend's message with friendServerNotifications enabled.
C3_MutedSilent ==
    (IsMessage /\ event.message.channel_id \in host.mutedChannels) => shown = <<>>

\* C4: while streamer mode is active and disableInStreamerMode is enabled,
\* neither MESSAGE_CREATE nor RELATIONSHIP_ADD calls showNotification.
C4_StreamerModeSilent ==
    ((IsMessage \/ IsRelationship) /\ StreamerSuppressed) => shown = <<>>

\* C5: no event of a user of the ignored-user list produces a notification:
\* neither a MESSAGE_CREATE of that author in a DM, a group DM or a guild
\* channel (also one of the always-notify list) nor a RELATIONSHIP_ADD.
C5_IgnoredSilent ==
    /\ (IsMessage /\ SenderIgnored) => shown = <<>>
    /\ (IsRelationship /\ listIncludes(ignoredUsers, event.relationship.user.id)) => shown = <<>>

C5_Witness ==
    /\ IsMessage /\ SenderIgnored
    /\ EventChannel.guild_id # ""
    /\ listIncludes(notifyFor, event.message.channel_id)
    /\ ~SelfAuthored /\ ~Focused /\ ~StreamerSuppressed /\ ~ScreenshareIgnored
    /\ shown = <<>>

\* the kind of the message's channel is switched off in the settings
KindDisabled ==
    \/ (~settings.directMessages /\ isDM(EventChannel))
    \/ (~settings.groupMessages /\ isGroupDM(EventChannel))

\* C6: for a non-guild message, a disabled channel kind means no notification,
\* and when no suppression condition holds (self-authored, focused, ignored
\* sender, streamer mode, screenshare with IGNORE, muted, disabled kind)
\* exactly one notification is produced.
C6_PrivateMessages ==
    (IsMessage /\ EventChannel.guild_id = "") =>
        /\ KindDisabled => shown = <<>>
        /\ (PassedGeneralChecks /\ ~KindDisabled
                /\ event.message.channel_id \notin host.mutedChannels) => Len(shown) = 1

\* the content holds a user-mention token, <@ID> or <@!ID>, of the current user
MentionsCurrentUser(content) ==
    includes(content, "<@" \o MeId \o ">") \/ includes(content, "<@!" \o MeId \o ">")

\* the four conditions of which a guild message needs one
GuildEligible ==
    \/ listIncludes(notifyFor, event.message.channel_id)
    \/ (event.message.author.id \in host.friends /\ settings.friendServerNotifications)
    \/ findNotificationLevel(EventChannel) = ALL_MESSAGES
    \/ (findNotificationLevel(EventChannel) = ONLY_MENTIONS
            /\ MentionsCurrentUser(event.message.content))

\* C7: a guild message that passed the general checks produces a notification
\* if and only if its channel is in the always-notify list, or its sender is a
\* friend and friendServerNotifications is enabled, or the effective level is
\* ALL_MESSAGES, or the level is ONLY_MENTIONS and the content mentions the
\* current user.
C7_GuildEligibility ==
    (IsMessage /\ EventChannel.guild_id # "" /\ PassedGeneralChecks) =>
        (shown # <<>> <=> GuildEligible)

\* redaction applies in the state
RedactionApplies ==
    \/ (host.activeStreams >= 1 /\ settings.streamingTreatment = NO_CONTENT)
    \/ settings.disableMessageBody

\* what buildNotificationData computes for the message handled last
EventBuilt == buildNotificationData(event.message, EventChannel, shown[1].onClick).value

\* C8: a message notification shown while redaction applies has the body
\* "Message content has been redacted." and no richBody, on both paths; one
\* shown while it does not apply has buildNotificationData's body and richBody.
C8_Redaction ==
    (IsMessage /\ shown # <<>>) =>
        LET built == EventBuilt
        IN  IF RedactionApplies
            THEN shown[1].body = "Message content has been redacted."
                 /\ shown[1].richBody = <<>>
            ELSE shown[1].body = built.body /\ shown[1].richBody = built.richBody

C8_Witness ==
    /\ IsMessage /\ shown # <<>>
    /\ EventChannel.guild_id # ""
    /\ settings.disableMessageBody /\ host.activeStreams = 0
    /\ EventBuilt.richBody # <<>>
    /\ shown[1].body = "Message content has been redacted."
    /\ shown[1].richBody = <<>>

(***************************************************************************)
(* Properties of the pure functions.                                       *)
(***************************************************************************)
\* C9: with attachments the result of limitMessageLength is at most 30 long,
\* the first 27 characters plus "..." when the body is longer than 30 and the
\* body itself otherwise; without attachments the same with 165 and 162.
C9_Truncation ==
    call.fn = "limitMessageLength" =>
        LET body == call.body
            L == Len(body)
        IN  IF call.hasAttachments
            THEN /\ Len(result) <= 30
                 /\ result = IF L > 30 THEN SubSeq(body, 1, 27) \o "..." ELSE body
            ELSE /\ Len(result) <= 165
                 /\ result = IF L > 165 THEN SubSeq(body, 1, 162) \o "..." ELSE body

C9_Witness ==
    /\ call.fn = "limitMessageLength"
    /\ call.hasAttachments
    /\ Len(call.body) = 31
    /\ result = SubSeq(call.body, 1, 27) \o "..."

\* the plain-text segments of a rich sequence, concatenated in order
RECURSIVE PlainText(_)
PlainText(elements) ==
    IF elements = <<>> THEN ""
    ELSE (IF elements[1].kind = "text" THEN elements[1].text ELSE "")
         \o PlainText(Tail(elements))

\* the pieces that are no mention tokens, concatenated in order
RECURSIVE TextOutsideTokens(_)
TextOutsideTokens(pieces) ==
    IF pieces = <<>> THEN ""
    ELSE (IF pieces[1].type = "" THEN pieces[1].text ELSE "")
         \o TextOutsideTokens(Tail(pieces))

IsToken(piece) == piece.type # ""

IsMention(element) == element.kind = "mention"

\* C10: the plain-text segments parseMentions returns, concatenated in order,
\* are the body without its mention tokens (the text after the last token
\* included), and the k-th mention element is the k-th token's, preceded by
\* exactly the text that precedes that token.
C10_ParseMentions ==
    call.fn = "parseMentions" =>
        LET tokens == SelectSeq(call.pieces, IsToken)
            mentions == SelectSeq(result, IsMention)
        IN  /\ PlainText(result) = TextOutsideTokens(call.pieces)
            /\ Len(mentions) = Len(tokens)
            /\ \A k \in 1..Len(tokens) :
                  /\ mentions[k].type = tokens[k].type
                  /\ mentions[k].id = tokens[k].id
            /\ \A j \in 1..Len(result) : \A i \in 1..Len(call.pieces) :
                  (/\ IsMention(result[j])
                   /\ IsToken(call.pieces[i])
                   /\ Len(SelectSeq(SubSeq(result, 1, j), IsMention))
                        = Len(SelectSeq(SubSeq(call.pieces, 1, i), IsToken)))
                  => PlainText(SubSeq(result, 1, j - 1))
                        = TextOutsideTokens(SubSeq(call.pieces, 1, i - 1))

C10_Witness ==
    /\ call.fn = "parseMentions"
    /\ Len(call.pieces) = 3
    /\ IsToken(call.pieces[1]) /\ IsToken(call.pieces[2]) /\ ~IsToken(call.pieces[3])
    /\ Len(result) = 5
    /\ IsMention(result[2]) /\ IsMention(result[4])
    /\ result[5] = Text(call.pieces[3].text)

(***************************************************************************)
(* Properties of the relationship notifications.                           *)
(***************************************************************************)
\* the RELATIONSHIP_ADD handled last reached relationshipAdd
ReachedRelationshipAdd ==
    IsRelationship /\ ~listIncludes(ignoredUsers, event.relationship.user.id)

\* C11: relationshipAdd with friendActivity enabled shows exactly one
\* notification titled "<username> is now your friend" for type FRIEND and
\* exactly one titled "<username> sent you a friend request" for type
\* INCOMING_REQUEST, and none for any other type; with friendActivity
\* disabled it shows none for any type.
C11_RelationshipTitles ==
    ReachedRelationshipAdd =>
        LET username == event.relationship.user.username
            type == event.relationship.type
        IN  IF ~settings.friendActivity THEN shown = <<>>
            ELSE IF type = "FRIEND"
                 THEN Len(shown) = 1 /\ shown[1].title = username \o " is now your friend"
            ELSE IF type = "INCOMING_REQUEST"
                 THEN Len(shown) = 1
                      /\ shown[1].title = username \o " sent you a friend request"
            ELSE shown = <<>>

\* C12: invoking the click handler of a relationship notification makes a
\* call to the navigation service, for a new friend (to the DM with that
\* friend) and for an incoming friend request (to the friend-requests view).
C12_ClickNavigates ==
    (IsRelationship /\ click.done) => Len(click.calls) = 1

(***************************************************************************)
(* Properties of the handlers' promises.                                   *)
(***************************************************************************)
\* C13: the promise returned by the handler of a MESSAGE_CREATE (DM, group DM
\* or guild) or RELATIONSHIP_ADD that shows a notification does not resolve
\* before the promise of the showNotification call it issued has resolved.
C13_HandledToCompletion ==
    ((IsMessage \/ IsRelationship) /\ shown # <<>> /\ handler = "settled") => toast = "closed"

(***************************************************************************)
(* Properties of the two id lists.                                         *)
(***************************************************************************)
\* C14: once start() has run, in every state reached by setting changes,
\* MESSAGE_CREATE and RELATIONSHIP_ADD events the ignored-user list is
\* stringToList of the current ignoreUsers setting and the always-notify list
\* is stringToList of the current notifyFor setting; hence a handler, which
\* changes no setting, leaves both lists as they were, and a change to one
\* setting leaves the other setting's list as it was.
C14_ListsFollowSettings ==
    started =>
        /\ ignoredUsers = stringToList(settings.ignoreUsers)
        /\ notifyFor = stringToList(settings.notifyFor)

C14_Witness ==
    /\ started
    /\ IsMessage
    /\ changes >= 1
    /\ settings.ignoreUsers = " " \o BobId \o " ,\t" \o EveId
    /\ ignoredUsers = <<BobId, EveId>>
    /\ notifyFor = <<TextId, LostId>>

(***************************************************************************)
(* Properties of addMention, checked under SpecAddMention.                 *)
(***************************************************************************)
\* C15: a failed store lookup never aborts (addMention never throws) and
\* always yields the placeholder: "@unknown-user" for an unresolved user,
\* "#unknown-channel" for an unresolved channel, and "@unknown-role" for a
\* role whose guild or role cannot be resolved or whose channel has no guild
\* id.
C15_Placeholders ==
    call.fn = "addMention" =>
        /\ result.kind # "throw"
        /\ (call.type = "user" /\ call.id \notin host.knownUsers)
              => result.name = <<"@unknown-user">>
        /\ (call.type = "channel" /\ call.id \notin ChannelIds)
              => result.name = <<"#unknown-channel">>
        /\ (call.type = "role"
              /\ (call.guildId = "" \/ call.guildId \notin host.knownGuilds \/ call.id # RoleId))
              => result.name = <<"@unknown-role">>

(***************************************************************************)
(* Properties of getNotificationBody, checked under SpecBody.              *)
(***************************************************************************)
\* the message carries a sticker
HasSticker(message) == message.stickerItems # <<>> /\ message.stickerItems[1] # <<>>

HasImage(message) ==
    \E k \in 1..Len(message.attachments) : message.attachments[k] = ImageAttachment

\* the text of a system message of bob about eve
SystemText(message) ==
    CASE message.type = "CALL" -> "Started a call with you!"
      [] message.type = "CHANNEL_RECIPIENT_ADD" -> "Eve was added to the group by Bobby."
      [] message.type = "CHANNEL_RECIPIENT_REMOVE" -> "Eve was removed from the group by Bobby."
      [] message.type = "CHANNEL_NAME_CHANGE" ->
            "Changed the channel name to '" \o message.content \o "'."
      [] message.type = "CHANNEL_ICON_CHANGE" -> "Changed the channel icon."
      [] message.type = "CHANNEL_PINNED_MESSAGE" -> "Pinned a message."

\* C16: getNotificationBody returns, in this order of precedence: for the six
\* system types that type's text, whatever the embeds, stickers and
\* attachments; with embeds the content, or "Sent an embed." when it is empty;
\* with a sticker the content or "Sent a sticker."; with attachments the
\* content when one of them is an image, else the content followed by
\* " [Attachment: <first filename>]"; otherwise the content.
C16_BodyPrecedence ==
    call.fn = "getNotificationBody" =>
        LET message == call.message
            content == message.content
        IN  /\ result.ok
            /\ result.value =
                 IF message.type # "DEFAULT" THEN SystemText(message)
                 ELSE IF message.embeds > 0
                      THEN (IF content = "" THEN "Sent an embed." ELSE content)
                 ELSE IF HasSticker(message)
                      THEN (IF content = "" THEN "Sent a sticker." ELSE content)
                 ELSE IF message.attachments # <<>>
                      THEN (IF HasImage(message) THEN content
                            ELSE content \o " [Attachment: notes.txt]")
                 ELSE content

(***************************************************************************)
(* Properties of buildNotificationData, checked under SpecBuild.           *)
(***************************************************************************)
\* the text a rich sequence renders: its segments and mention names in order
RECURSIVE Rendered(_)
Rendered(elements) ==
    IF elements = <<>> THEN ""
    ELSE (IF elements[1].kind = "text" THEN elements[1].text
          ELSE IF elements[1].name = <<>> THEN "" ELSE elements[1].name[1])
         \o Rendered(Tail(elements))

\* C17: emotes are substituted, then the body is truncated, then mentions are
\* split: a richBody, when present, is the split of the very string stored
\* in the body field, and what it renders is at most 30 characters long with
\* attachments and 165 without.
C17_SplitOfTruncated ==
    (call.fn = "buildNotificationData" /\ result.ok /\ result.value.richBody # <<>>) =>
        /\ result.value.richBody = parseMentions(result.value.body, Channel(call.channel))
        /\ Len(Rendered(result.value.richBody))
              <= (IF call.message.attachments # <<>> THEN 30 ELSE 165)

(***************************************************************************)
(* Properties of the guild path.                                           *)
(***************************************************************************)
\* neither the always-notify list nor the friend rule lets the message through
NoBypass ==
    /\ ~listIncludes(notifyFor, event.message.channel_id)
    /\ ~(event.message.author.id \in host.friends /\ settings.friendServerNotifications)

\* C18: for a guild message that passed the general checks, at effective
\* level ONLY_MENTIONS and with no always-notify or friend bypass, a
\* notification is produced when the content contains "<@ID>" or "<@!ID>",
\* ID the current user's id, and none is produced when it contains neither.
C18_MentionForms ==
    (/\ IsMessage
     /\ EventChannel.guild_id # ""
     /\ PassedGeneralChecks
     /\ NoBypass
     /\ findNotificationLevel(EventChannel) = ONLY_MENTIONS) =>
        IF \/ includes(event.message.content, "<@" \o MeId \o ">")
           \/ includes(event.message.content, "<@!" \o MeId \o ">")
        THEN Len(shown) = 1
        ELSE shown = <<>>

(***************************************************************************)
(* Properties of findNotificationLevel, checked under SpecLevel.           *)
(***************************************************************************)
\* the guild's settings entry holds an explicit override for the channel
HasOverride(channelId) ==
    /\ host.userGuildSettings # <<>>
    /\ channelId \in DOMAIN host.userGuildSettings[1].channel_overrides
    /\ host.userGuildSettings[1].channel_overrides[channelId].message_notifications # <<>>

\* C19: findNotificationLevel returns NO_MESSAGES when
\* determineServerNotifications is disabled or the guild or the channel is
\* muted, whatever the overrides; otherwise the channel's explicit override
\* when there is one, else the guild's default when it is a number, else
\* NO_MESSAGES (also when the guild has no settings entry).
C19_NotificationLevel ==
    call.fn = "findNotificationLevel" =>
        IF \/ ~settings.determineServerNotifications
           \/ GuildId \in host.mutedGuilds
           \/ call.channel \in host.mutedChannels
        THEN result = NO_MESSAGES
        ELSE IF HasOverride(call.channel)
             THEN <<result>>
                    = host.userGuildSettings[1].channel_overrides[call.channel].message_notifications
        ELSE IF host.userGuildSettings # <<>>
                  /\ host.userGuildSettings[1].message_notifications # <<>>
             THEN <<result>> = host.userGuildSettings[1].message_notifications
        ELSE result = NO_MESSAGES

C19_Witness ==
    /\ call.fn = "findNotificationLevel"
    /\ settings.determineServerNotifications
    /\ host.mutedGuilds = {}
    /\ call.channel \in host.mutedChannels
    /\ HasOverride(call.channel)
    /\ host.userGuildSettings[1].channel_overrides[call.channel].message_notifications
          = <<ALL_MESSAGES>>
    /\ result = NO_MESSAGES

(***************************************************************************)
(* Properties of the redacted notification.                                *)
(***************************************************************************)
\* m is the message handled last up to its content, mentions and attachments
SameEnvelope(m) ==
    /\ m.author = event.message.author
    /\ m.channel_id = event.message.channel_id
    /\ m.type = event.message.type

\* C20: while redaction applies, the notification shown for a message does
\* not depend on its content, mentions or attachments: any other message of
\* the same author in the same channel that is shown in the same state gets
\* the same body, richBody and image (so no image of an attachment is shown).
C20_RedactedIndependent ==
    (IsMessage /\ shown # <<>> /\ RedactionApplies) =>
        \A m \in Messages :
            (SameEnvelope(m) /\ messageCreate(m).shown # <<>>) =>
                LET other == messageCreate(m).shown[1]
                IN  /\ other.body = shown[1].body
                    /\ other.richBody = shown[1].richBody
                    /\ other.image = shown[1].image

====
